---- MODULE Spec2Model ----
(***************************************************************************)
(* Survey submission and coupon issuance (server/routers/survey.ts), the   *)
(* SurveyResponse collection with its unique indexes, the cached MongoDB   *)
(* connection (lib/db.ts) and the LINE coupon delivery service.            *)
(*                                                                         *)
(* A request handler is split at its await points: every action is the     *)
(* completion of one awaited operation together with the synchronous code  *)
(* that runs up to the next await.                                         *)
(***************************************************************************)
EXTENDS Integers, Sequences, FiniteSets, TLC

\* ------------------------------------------------------------------ bounds
\* Number of request handlers (submit or getStatus) in one behaviour.
MaxCalls == 2
\* Size of the range the coupon generator draws from.
NumCodes == 2

\* Number of request handlers that call connectDB when lib/db.ts is taken on
\* its own.
MaxCallers == 4

\* Number of times React runs the init effect of one LiffProvider instance.
MaxEffectRuns == 2

\* Number of clicks on the refresh and skip buttons of the add-friend prompts.
MaxClicks == 4

\* Number of values Math.random() is drawn from, besides one just below 1.
NumRandom == 3

\* zod .max(200) and mongoose maxlength of the free-text fields
MaxTextLen == 200

Calls == 1..MaxCalls
Codes == 1..NumCodes
NoCode == 0
NoAttempt == 0

\* ------------------------------------------------------------------ inputs
\* Strings whose whitespace matters are sequences of characters.
RawUserIds == { <<" ", "a">>, <<"b">> }
\* The identities records are stored under.
StoredIds == { <<"a">>, <<"b">> }

AGE_RANGES == {"18-24", "25-34", "35-44", "45-54", "55-64", "65+"}
GENDERS == {"male", "female"}
CHANNELS == {"facebook", "instagram", "tiktok", "ecommerce", "retail", "medical", "other"}
PRICE_RANGES == {"lte500", "500-1500", "1500-2500", "gte2500"}

NoText == <<"null">>

\* Request bodies that pass surveySubmitSchema (the router parses the input
\* before the handler runs).  The first has text the schema setters trim,
\* the second a brand of one blank.
Payloads ==
  { [ageRange |-> "65+", gender |-> "female", channels |-> <<"other", "retail">>,
     channelOtherText |-> <<" ", "o">>, priceRange |-> "gte2500", currentBrand |-> <<"y", " ">>],
    [ageRange |-> "25-34", gender |-> "female", channels |-> <<"tiktok">>,
     channelOtherText |-> <<>>, priceRange |-> "500-1500", currentBrand |-> <<" ">>] }

NoPayload ==
  [ageRange |-> "", gender |-> "", channels |-> <<>>,
   channelOtherText |-> NoText, priceRange |-> "", currentBrand |-> <<>>]

\* ------------------------------------------------------------- strings
RECURSIVE TrimStart(_)
TrimStart(s) ==
  IF s # <<>> /\ Head(s) = " " THEN TrimStart(Tail(s)) ELSE s

RECURSIVE TrimEnd(_)
TrimEnd(s) ==
  IF s # <<>> /\ s[Len(s)] = " " THEN TrimEnd(SubSeq(s, 1, Len(s) - 1)) ELSE s

\* The mongoose `trim: true` setter (String.prototype.trim).
Trim(s) == TrimEnd(TrimStart(s))

\* lineUserIdSchema: z.string().min(1)
LineUserIdSchemaOk(id) == Len(id) >= 1

\* surveySubmitSchema
SurveySubmitSchemaOk(id, p) ==
  /\ LineUserIdSchemaOk(id)
  /\ p.ageRange \in AGE_RANGES
  /\ p.gender \in GENDERS
  /\ Len(p.channels) >= 1
  /\ \A i \in 1..Len(p.channels) : p.channels[i] \in CHANNELS
  /\ (p.channelOtherText # NoText => Len(p.channelOtherText) <= MaxTextLen)
  /\ p.priceRange \in PRICE_RANGES
  /\ Len(p.currentBrand) >= 1
  /\ Len(p.currentBrand) <= MaxTextLen

\* ------------------------------------------------------------------ state
VARIABLES
  env,       \* process environment: NODE_ENV, LINE token, MONGODB_URI
  cached,    \* lib/db.ts: the global connection cache {conn, promise}
  attempts,  \* mongoose.connect promises, in creation order
  records,   \* the survey_responses collection
  call,      \* the request handlers
  line,      \* the LINE side: sendCouponToUser invocations and accepted pushes
  gen,       \* lib/coupon.ts: one run of generateCouponCode / isValidCouponCode
  wiz,       \* SurveyContainer: the wizard's React state and its submit mutation
  liff,      \* LiffProvider: its React state, its refs and its init routine
  prompt     \* the add-friend prompts: their React state

vars == <<env, cached, attempts, records, call, line, gen, wiz, liff, prompt>>

\* What the request handlers read and write.
serverVars == <<env, cached, attempts, records, call, line>>

\* What no request handler touches.
others == <<gen, wiz, liff, prompt>>

\* The identity a record is stored and looked up under.
StoredId(c) == Trim(call[c].lineUserId)

IdleCall ==
  [pc |-> "idle", kind |-> "none", lineUserId |-> <<>>, payload |-> NoPayload,
   couponCode |-> NoCode, awaiting |-> NoAttempt, after |-> {},
   ok |-> FALSE, found |-> FALSE, result |-> NoCode, error |-> "",
   saves |-> 0, saveError |-> "", inserted |-> FALSE, sent |-> FALSE,
   push |-> "none", stamp |-> "none"]

\* NODE_ENV, LINE_CHANNEL_ACCESS_TOKEN ("test": 'test-token' or 'test-...')
\* and whether MONGODB_URI is defined: one environment for each outcome of
\* isMockMode, getLineClient and the MONGODB_URI check.
Envs ==
  { [isDev |-> TRUE,  token |-> "test",  mongoUri |-> TRUE],
    [isDev |-> FALSE, token |-> "unset", mongoUri |-> TRUE],
    [isDev |-> FALSE, token |-> "real",  mongoUri |-> TRUE],
    [isDev |-> FALSE, token |-> "real",  mongoUri |-> FALSE] }

\* A record an earlier process lifetime left in the collection: submitted by
\* "b", its one delivery attempt failed.
PriorRecord ==
  [lineUserId |-> <<"b">>, ageRange |-> "35-44", gender |-> "male",
   channels |-> <<"retail">>, channelOtherText |-> NoText,
   priceRange |-> "1500-2500", currentBrand |-> <<"z">>,
   couponCode |-> 1, couponSentAt |-> "null", submittedAt |-> "Date"]

NoDate == [fullYear |-> 0, month |-> 0, date |-> 0]

\* generateCouponCode has not been called.
IdleGen ==
  [pc |-> "idle", now |-> NoDate, datePrefix |-> <<>>, i |-> 0, result |-> <<>>,
   code |-> <<>>, valid |-> FALSE]

\* INITIAL_FORM_DATA
INITIAL_FORM_DATA ==
  [ageRange |-> "null", gender |-> "null", channels |-> <<>>,
   channelOtherText |-> <<>>, priceRange |-> "null", currentBrand |-> <<>>]

\* SurveyContainer is not rendered.
NoWizard ==
  [mounted |-> FALSE, currentStep |-> 0,
   formData |-> INITIAL_FORM_DATA, isSubmitted |-> FALSE, couponCode |-> NoCode,
   isPending |-> FALSE, mutated |-> FALSE, payload |-> NoPayload,
   mutationCall |-> 0,
   status |-> "idle", statusCall |-> 0,
   statusData |-> [alreadySubmitted |-> FALSE, couponCode |-> NoCode]]

\* MOCK_PROFILE.userId
MOCK_PROFILE == <<"b">>

\* No profile: useState<LiffProfile | null>(null).
NoProfile == <<"null">>

\* LiffProvider before its effect has run: the useState and useRef initial
\* values. active: an effect run is set up; owns: that run is the one that
\* started initLiff, so its cleanup sets the routine's cancelled flag; pc: the
\* await initLiff is at; initCalls, loginCalls: the calls of liff.init and
\* liff.login so far; checks: the calls of checkFriendship that have not
\* returned.
NoLiff ==
  [active |-> FALSE, owns |-> FALSE, effectRuns |-> 0,
   isInitialized |-> FALSE, isLoading |-> TRUE, error |-> "null",
   profile |-> NoProfile, isLoggedIn |-> FALSE, isFriend |-> FALSE,
   isCheckingFriendship |-> FALSE, isMockMode |-> FALSE,
   debugInfo |-> "initializing...",
   didInitRef |-> FALSE, loginAttemptedRef |-> FALSE,
   cancelled |-> FALSE, pc |-> "idle", initCalls |-> 0, loginCalls |-> 0,
   checks |-> <<>>]

\* The add-friend prompts before they are rendered: retryCount of
\* AddFriendPromptPostSubmit, retryCount and showSkipOption of AddFriendPrompt.
\* clicks: the clicks on a refresh or skip button so far. unconfirmed,
\* preUnconfirmed: the rechecks started on the prompt that is displayed and
\* completed without confirming friendship; unconfirmedEver,
\* preUnconfirmedEver: the same, over all displays of the prompt.
NoPrompt ==
  [retryCount |-> 0, preRetryCount |-> 0, showSkipOption |-> FALSE,
   clicks |-> 0, unconfirmed |-> 0, unconfirmedEver |-> 0,
   preUnconfirmed |-> 0, preUnconfirmedEver |-> 0]

NoLine == [sendCalls |-> [u \in StoredIds |-> 0], delivered |-> {}]

Init ==
  /\ env \in Envs
  /\ cached = [conn |-> FALSE, promise |-> NoAttempt]
  /\ attempts = <<>>
  /\ records = {PriorRecord}
  /\ line = [NoLine EXCEPT !.sendCalls[PriorRecord.lineUserId] = 1]
  /\ call = [c \in Calls |-> IdleCall]
  /\ gen = IdleGen
  /\ wiz = NoWizard
  /\ liff = NoLiff
  /\ prompt = NoPrompt

\* ------------------------------------------------------------- lib/db.ts
\* connectDB up to its await: the outcome for the caller and the new cache.
\*   "throw"  MONGODB_URI is not defined
\*   "conn"   the cached connection is returned
\*   "await"  the caller awaits cached.promise, created here when absent
ConnectDBEnter ==
  IF ~env.mongoUri THEN [to |-> "throw", cached |-> cached, attempts |-> attempts]
  ELSE IF cached.conn THEN [to |-> "conn", cached |-> cached, attempts |-> attempts]
  ELSE IF cached.promise = NoAttempt
    THEN [to |-> "await",
          cached |-> [cached EXCEPT !.promise = Len(attempts) + 1],
          attempts |-> Append(attempts, "pending")]
    ELSE [to |-> "await", cached |-> cached, attempts |-> attempts]

\* mongoose.connect settles.
ConnectResolve(a) ==
  /\ a \in 1..Len(attempts)
  /\ attempts[a] = "pending"
  /\ attempts' = [attempts EXCEPT ![a] = "resolved"]
  /\ UNCHANGED <<others, env, cached, records, call, line>>

ConnectReject(a) ==
  /\ a \in 1..Len(attempts)
  /\ attempts[a] = "pending"
  /\ attempts' = [attempts EXCEPT ![a] = "rejected"]
  /\ UNCHANGED <<others, env, cached, records, call, line>>

\* The pc of a handler once connectDB has returned: its first query.
FirstQuery(kind) == IF kind = "submit" THEN "findOne" ELSE "statusFind"

\* The handler throws: the caller gets an error.
Failed(c, err) ==
  [call[c] EXCEPT !.pc = "done", !.ok = FALSE, !.error = err,
                  !.awaiting = NoAttempt]

\* submit returns { success: true, couponCode }.
Succeeded(c, code) ==
  [call[c] EXCEPT !.pc = "done", !.ok = TRUE, !.result = code]

\* The calls that have returned.
Done == {c \in Calls : call[c].pc = "done"}

\* A request arrives: the handler runs to the await inside connectDB.
Request(c, kind, id, p) ==
  /\ call[c].pc = "idle"
  /\ \A b \in Calls : b < c => call[b].pc # "idle"
  /\ LET r == ConnectDBEnter
         started == [call[c] EXCEPT !.kind = kind, !.lineUserId = id,
                                    !.payload = p, !.after = Done]
     IN /\ cached' = r.cached
        /\ attempts' = r.attempts
        /\ call' = [call EXCEPT ![c] =
             CASE r.to = "throw" ->
                    [started EXCEPT !.pc = "done", !.error = "MONGODB_URI"]
               [] r.to = "conn" ->
                    [started EXCEPT !.pc = FirstQuery(kind)]
               [] OTHER ->
                    [started EXCEPT !.pc = "awaitConn", !.awaiting = r.cached.promise]]
  /\ UNCHANGED <<env, records, line>>

\* A request of a client that is not modelled further.
Invoke(c, kind, id, p) ==
  /\ Request(c, kind, id, p)
  /\ UNCHANGED others

InvokeSubmit(c) ==
  \E id \in RawUserIds, p \in Payloads :
    /\ SurveySubmitSchemaOk(id, p)
    /\ Invoke(c, "submit", id, p)

InvokeGetStatus(c) ==
  \E id \in RawUserIds :
    /\ LineUserIdSchemaOk(id)
    /\ Invoke(c, "getStatus", id, NoPayload)

\* connectDB after its await: cache the connection, or clear the promise
\* and rethrow.
ConnectDBResumeOk(c) ==
  /\ call[c].pc = "awaitConn"
  /\ attempts[call[c].awaiting] = "resolved"
  /\ cached' = [cached EXCEPT !.conn = TRUE]
  /\ call' = [call EXCEPT ![c].pc = FirstQuery(call[c].kind),
                          ![c].awaiting = NoAttempt]
  /\ UNCHANGED <<others, env, attempts, records, line>>

ConnectDBResumeThrowCaching(c) ==
  /\ call[c].pc = "awaitConn"
  /\ attempts[call[c].awaiting] = "rejected"
  /\ call' = [call EXCEPT ![c] = Failed(c, "connect")]
  /\ UNCHANGED <<others, env, cached, attempts, records, line>>

ConnectDBResumeThrow(c) ==
  /\ call[c].pc = "awaitConn"
  /\ attempts[call[c].awaiting] = "rejected"
  /\ cached' = [cached EXCEPT !.promise = NoAttempt]
  /\ call' = [call EXCEPT ![c] = Failed(c, "connect")]
  /\ UNCHANGED <<others, env, attempts, records, line>>

\* --------------------------------------------- lib/models/SurveyResponse.ts
\* new SurveyResponse({...}) as survey.ts builds it: the schema's trim
\* setters run on lineUserId, channelOtherText and currentBrand, and
\* `channelOtherText || null` maps the empty string to null.
NewSurveyResponse(id, p, code) ==
  [lineUserId |-> Trim(id), ageRange |-> p.ageRange, gender |-> p.gender,
   channels |-> p.channels,
   channelOtherText |->
     IF p.channelOtherText \in {NoText, <<>>} THEN NoText
     ELSE Trim(p.channelOtherText),
   priceRange |-> p.priceRange, currentBrand |-> Trim(p.currentBrand),
   couponCode |-> code, couponSentAt |-> "null", submittedAt |-> "Date"]

\* The schema's validators, run by save() before the insert.  `required`
\* rejects the empty string.
SchemaValid(doc) ==
  /\ doc.lineUserId # <<>>
  /\ doc.ageRange \in AGE_RANGES
  /\ doc.gender \in GENDERS
  /\ Len(doc.channels) > 0
  /\ \A i \in 1..Len(doc.channels) : doc.channels[i] \in CHANNELS
  /\ (doc.channelOtherText # NoText => Len(doc.channelOtherText) <= MaxTextLen)
  /\ doc.priceRange \in PRICE_RANGES
  /\ doc.currentBrand # <<>>
  /\ Len(doc.currentBrand) <= MaxTextLen
  /\ doc.couponCode # NoCode

DupLineUserId == "E11000 duplicate key error index: lineUserId_1"
DupCouponCode == "E11000 duplicate key error index: couponCode_1"

\* The unique indexes (lineUserId, couponCode), taken as built: the errors
\* an insert of doc can end with; none when it commits.
UniqueIndexErrors(recs, doc) ==
  {e \in {DupLineUserId} : \E r \in recs : r.lineUserId = doc.lineUserId}
  \cup {e \in {DupCouponCode} : \E r \in recs : r.couponCode = doc.couponCode}

\* SurveyResponse.findOne({ lineUserId }): the filter is cast by the schema,
\* which trims it.  The set of matching records (at most one).
FindOne(recs, id) == {r \in recs : r.lineUserId = Trim(id)}

\* Faulty variant: the update replaces the document, losing its coupon code.
StampCouponSentAtReplacing(recs, uid) ==
  {IF r.lineUserId = uid
     THEN [r EXCEPT !.couponSentAt = "Date", !.couponCode = NoCode]
     ELSE r : r \in recs}

\* SurveyResponse.updateOne({ _id }, { couponSentAt: new Date() }); the
\* record of a call is the one stored under its identity.
StampCouponSentAt(recs, uid) ==
  {IF r.lineUserId = uid THEN [r EXCEPT !.couponSentAt = "Date"] ELSE r : r \in recs}

\* ------------------------------------------------------- server/services/line.ts
IsMockMode ==
  env.isDev /\ env.token \in {"unset", "test"}

\* getLineClient throws when the token is not set.
HasLineClient == env.token # "unset"

\* sendCouponToUser up to its await, called right after the save:
\*   "returned"  mock mode, nothing is sent
\*   "threw"     getLineClient threw
\*   "push"      client.pushMessage is awaited
SendCouponEnter ==
  IF IsMockMode THEN "returned"
  ELSE IF ~HasLineClient THEN "threw"
  ELSE "push"

\* ---------------------------------------------------- server/routers/survey.ts
\* Faulty variant: no error is recognised as a duplicate key error.
IsDuplicateKeyErrorNever(msg) == FALSE

\* error.message.includes('duplicate key')
IsDuplicateKeyError(msg) == msg \in {DupLineUserId, DupCouponCode}

SaveFailedError == "TRPCError: Failed to save survey response"

\* generateCouponCode(): some code of the generator's range.
GenerateCouponCode == Codes

\* Faulty variant: a resubmission sends the existing coupon again.
SubmitFindExistingResending(c) ==
  /\ call[c].pc = "findOne"
  /\ \E r \in FindOne(records, call[c].lineUserId) :
       /\ call' = [call EXCEPT ![c] = [Succeeded(c, r.couponCode) EXCEPT !.sent = TRUE]]
       /\ line' = [line EXCEPT !.sendCalls[r.lineUserId] = @ + 1]
  /\ UNCHANGED <<others, env, cached, attempts, records>>

\* Faulty variant: a resubmission overwrites the stored answers.
SubmitFindExistingOverwriting(c) ==
  /\ call[c].pc = "findOne"
  /\ \E r \in FindOne(records, call[c].lineUserId) :
       /\ call' = [call EXCEPT ![c] = Succeeded(c, r.couponCode)]
       /\ records' = (records \ {r}) \cup
            {[NewSurveyResponse(call[c].lineUserId, call[c].payload, r.couponCode)
                EXCEPT !.couponSentAt = r.couponSentAt]}
  /\ UNCHANGED <<others, env, cached, attempts, line>>

\* submit, first findOne: an existing record's coupon is returned.
SubmitFindExisting(c) ==
  /\ call[c].pc = "findOne"
  /\ \E r \in FindOne(records, call[c].lineUserId) :
       call' = [call EXCEPT ![c] = Succeeded(c, r.couponCode)]
  /\ UNCHANGED <<others, env, cached, attempts, records, line>>

\* Faulty variant: the coupon is sent before the document is saved.
SubmitFindNoneSendingFirst(c) ==
  /\ call[c].pc = "findOne"
  /\ FindOne(records, call[c].lineUserId) = {}
  /\ \E code \in Codes :
       call' = [call EXCEPT ![c].pc = "save", ![c].couponCode = code,
                            ![c].sent = TRUE]
  /\ line' = [line EXCEPT !.sendCalls[StoredId(c)] = @ + 1]
  /\ UNCHANGED <<others, env, cached, attempts, records>>

\* submit, first findOne finds nothing: a code is generated, the document is
\* built and save() is awaited.
SubmitFindNone(c) ==
  /\ call[c].pc = "findOne"
  /\ FindOne(records, call[c].lineUserId) = {}
  /\ \E code \in GenerateCouponCode :
       call' = [call EXCEPT ![c].pc = "save", ![c].couponCode = code]
  /\ UNCHANGED <<others, env, cached, attempts, records, line>>

\* A query fails (storage unavailable) outside the try block: the error
\* reaches the caller as it is.
SubmitFindThrows(c) ==
  /\ call[c].pc = "findOne"
  /\ call' = [call EXCEPT ![c] = Failed(c, "MongoError")]
  /\ UNCHANGED <<others, env, cached, attempts, records, line>>

\* The catch block of submit for an error that is not a duplicate key (or
\* whose re-read finds nothing): TRPCError INTERNAL_SERVER_ERROR.
CatchSaveError(c, msg) ==
  IF IsDuplicateKeyError(msg)
  THEN [call[c] EXCEPT !.pc = "reread", !.saves = @ + 1, !.saveError = msg]
  ELSE [Failed(c, SaveFailedError) EXCEPT !.saves = @ + 1, !.saveError = msg]

\* save() rejects the document: validation.
SaveInvalid(c) ==
  /\ call[c].pc = "save"
  /\ ~SchemaValid(NewSurveyResponse(call[c].lineUserId, call[c].payload, call[c].couponCode))
  /\ call' = [call EXCEPT ![c] = CatchSaveError(c, "ValidationError")]
  /\ UNCHANGED <<others, env, cached, attempts, records, line>>

\* save(): the insert violates a unique index.
SaveDuplicate(c) ==
  /\ call[c].pc = "save"
  /\ LET doc == NewSurveyResponse(call[c].lineUserId, call[c].payload, call[c].couponCode)
     IN /\ SchemaValid(doc)
        /\ \E e \in UniqueIndexErrors(records, doc) :
             call' = [call EXCEPT ![c] = CatchSaveError(c, e)]
  /\ UNCHANGED <<others, env, cached, attempts, records, line>>

\* Faulty variant: the failed insert leaves a document without its coupon code.
SaveThrowsPartial(c) ==
  /\ call[c].pc = "save"
  /\ SchemaValid(NewSurveyResponse(call[c].lineUserId, call[c].payload, call[c].couponCode))
  /\ call' = [call EXCEPT ![c] = CatchSaveError(c, "MongoError")]
  /\ records' = records \cup
       {NewSurveyResponse(call[c].lineUserId, call[c].payload, NoCode)}
  /\ UNCHANGED <<others, env, cached, attempts, line>>

\* save(): storage unavailable.
SaveThrows(c) ==
  /\ call[c].pc = "save"
  /\ SchemaValid(NewSurveyResponse(call[c].lineUserId, call[c].payload, call[c].couponCode))
  /\ call' = [call EXCEPT ![c] = CatchSaveError(c, "MongoError")]
  /\ UNCHANGED <<others, env, cached, attempts, records, line>>

\* Faulty variant: the updateOne is issued after the try/catch around the delivery,
\* so also when sendCouponToUser threw.
AfterSaveStampingAlways(c) ==
  LET saved == [call[c] EXCEPT !.saves = @ + 1, !.inserted = TRUE, !.sent = TRUE]
  IN CASE SendCouponEnter = "returned" ->
            [saved EXCEPT !.pc = "updateOne", !.push = "mock"]
       [] SendCouponEnter = "threw" ->
            [saved EXCEPT !.pc = "updateOne", !.push = "noclient"]
       [] OTHER ->
            [saved EXCEPT !.pc = "push"]

\* The handler after a committed save: sendCouponToUser is called and runs
\* to its await.
AfterSave(c) ==
  LET saved == [call[c] EXCEPT !.saves = @ + 1, !.inserted = TRUE, !.sent = TRUE]
  IN CASE SendCouponEnter = "returned" ->
            [saved EXCEPT !.pc = "updateOne", !.push = "mock"]
       [] SendCouponEnter = "threw" ->
            [saved EXCEPT !.pc = "done", !.ok = TRUE, !.result = call[c].couponCode,
                          !.push = "noclient"]
       [] OTHER ->
            [saved EXCEPT !.pc = "push"]

\* save() commits the record; the coupon is then sent.
SaveCommit(c) ==
  /\ call[c].pc = "save"
  /\ LET doc == NewSurveyResponse(call[c].lineUserId, call[c].payload, call[c].couponCode)
     IN /\ SchemaValid(doc)
        /\ UniqueIndexErrors(records, doc) = {}
        /\ records' = records \cup {doc}
        /\ line' = [line EXCEPT !.sendCalls[doc.lineUserId] = @ + 1]
  /\ call' = [call EXCEPT ![c] = AfterSave(c)]
  /\ UNCHANGED <<others, env, cached, attempts>>

\* client.pushMessage succeeds; updateOne is awaited.
PushOk(c) ==
  /\ call[c].pc = "push"
  /\ line' = [line EXCEPT !.delivered = @ \cup {StoredId(c)}]
  /\ call' = [call EXCEPT ![c].pc = "updateOne", ![c].push = "ok"]
  /\ UNCHANGED <<others, env, cached, attempts, records>>

\* Faulty variant: the delivery error is not caught and fails the submission.
PushFailsRethrown(c) ==
  /\ call[c].pc = "push"
  /\ call' = [call EXCEPT ![c] = [Failed(c, SaveFailedError) EXCEPT !.push = "failed"]]
  /\ UNCHANGED <<others, env, cached, attempts, records, line>>

\* client.pushMessage fails: sendCouponToUser throws, submit logs it and
\* returns the coupon.
PushFails(c) ==
  /\ call[c].pc = "push"
  /\ call' = [call EXCEPT ![c] = [Succeeded(c, call[c].couponCode) EXCEPT !.push = "failed"]]
  /\ UNCHANGED <<others, env, cached, attempts, records, line>>

\* Faulty variant: the update's filter matches no document.
UpdateOneOkMatchingNothing(c) ==
  /\ call[c].pc = "updateOne"
  /\ call' = [call EXCEPT ![c] = [Succeeded(c, call[c].couponCode) EXCEPT !.stamp = "ok"]]
  /\ UNCHANGED <<others, env, cached, attempts, records, line>>

\* updateOne stamps couponSentAt.
UpdateOneOk(c) ==
  /\ call[c].pc = "updateOne"
  /\ records' = StampCouponSentAt(records, StoredId(c))
  /\ call' = [call EXCEPT ![c] = [Succeeded(c, call[c].couponCode) EXCEPT !.stamp = "ok"]]
  /\ UNCHANGED <<others, env, cached, attempts, line>>

\* updateOne fails (storage unavailable): caught by the same catch as a
\* delivery failure.
UpdateOneThrows(c) ==
  /\ call[c].pc = "updateOne"
  /\ call' = [call EXCEPT ![c] = [Succeeded(c, call[c].couponCode) EXCEPT !.stamp = "failed"]]
  /\ UNCHANGED <<others, env, cached, attempts, records, line>>

\* The re-read after a duplicate key error finds the record.
RereadFound(c) ==
  /\ call[c].pc = "reread"
  /\ \E r \in FindOne(records, call[c].lineUserId) :
       call' = [call EXCEPT ![c] = Succeeded(c, r.couponCode)]
  /\ UNCHANGED <<others, env, cached, attempts, records, line>>

\* The re-read finds nothing: the error is reported.
RereadNone(c) ==
  /\ call[c].pc = "reread"
  /\ FindOne(records, call[c].lineUserId) = {}
  /\ call' = [call EXCEPT ![c] = Failed(c, SaveFailedError)]
  /\ UNCHANGED <<others, env, cached, attempts, records, line>>

\* The re-read fails (storage unavailable): thrown from the catch block.
RereadThrows(c) ==
  /\ call[c].pc = "reread"
  /\ call' = [call EXCEPT ![c] = Failed(c, "MongoError")]
  /\ UNCHANGED <<others, env, cached, attempts, records, line>>

\* Faulty variant: the filter is compared as sent, without the schema's trim.
GetStatusFindUntrimmed(c) ==
  /\ call[c].pc = "statusFind"
  /\ LET hit == {r \in records : r.lineUserId = call[c].lineUserId}
     IN call' = [call EXCEPT ![c] =
          IF hit = {} THEN [Succeeded(c, NoCode) EXCEPT !.found = FALSE]
          ELSE [Succeeded(c, (CHOOSE r \in hit : TRUE).couponCode) EXCEPT !.found = TRUE]]
  /\ UNCHANGED <<others, env, cached, attempts, records, line>>

\* Faulty variant: reading the status marks the coupon as sent.
GetStatusFindStamping(c) ==
  /\ call[c].pc = "statusFind"
  /\ LET hit == FindOne(records, call[c].lineUserId)
     IN call' = [call EXCEPT ![c] =
          IF hit = {} THEN [Succeeded(c, NoCode) EXCEPT !.found = FALSE]
          ELSE [Succeeded(c, (CHOOSE r \in hit : TRUE).couponCode) EXCEPT !.found = TRUE]]
  /\ records' = StampCouponSentAt(records, StoredId(c))
  /\ UNCHANGED <<others, env, cached, attempts, line>>

\* getStatus: findOne(...).lean() and the response.
GetStatusFind(c) ==
  /\ call[c].pc = "statusFind"
  /\ LET hit == FindOne(records, call[c].lineUserId)
     IN call' = [call EXCEPT ![c] =
          IF hit = {} THEN [Succeeded(c, NoCode) EXCEPT !.found = FALSE]
          ELSE [Succeeded(c, (CHOOSE r \in hit : TRUE).couponCode) EXCEPT !.found = TRUE]]
  /\ UNCHANGED <<others, env, cached, attempts, records, line>>

GetStatusThrows(c) ==
  /\ call[c].pc = "statusFind"
  /\ call' = [call EXCEPT ![c] = Failed(c, "MongoError")]
  /\ UNCHANGED <<others, env, cached, attempts, records, line>>

\* ------------------------------------------------------------- lib/coupon.ts
Digits09 == {"0", "1", "2", "3", "4", "5", "6", "7", "8", "9"}
UpperAZ ==
  {"A", "B", "C", "D", "E", "F", "G", "H", "I", "J", "K", "L", "M",
   "N", "O", "P", "Q", "R", "S", "T", "U", "V", "W", "X", "Y", "Z"}

\* Faulty variant: L is left in the character set.
CHARSETWithL ==
  <<"A", "B", "C", "D", "E", "F", "G", "H", "J", "K", "L", "M", "N", "P", "Q", "R",
    "S", "T", "U", "V", "W", "X", "Y", "Z", "2", "3", "4", "5", "6", "7", "8", "9">>

\* const CHARSET = 'ABCDEFGHJKMNPQRSTUVWXYZ23456789'
CHARSET ==
  <<"A", "B", "C", "D", "E", "F", "G", "H", "J", "K", "M", "N", "P", "Q", "R",
    "S", "T", "U", "V", "W", "X", "Y", "Z", "2", "3", "4", "5", "6", "7", "8", "9">>

\* The length generateCouponCode asks generateRandomString for.
SuffixLength == 6

\* Math.random(): a number of [0, 1), as numerator and denominator.  The
\* multiples of 1/NumRandom and a value just below 1.
MathRandom ==
  {[num |-> n, den |-> NumRandom] : n \in 0..(NumRandom - 1)}
  \cup {[num |-> 999, den |-> 1000]}

\* Faulty variant: Math.round in place of Math.floor.
RandomIndexRounded(r) == (2 * r.num * Len(CHARSET) + r.den) \div (2 * r.den)

\* Math.floor(Math.random() * CHARSET.length)
RandomIndex(r) == (r.num * Len(CHARSET)) \div r.den

\* What `result += CHARSET[randomIndex]` appends: the character, or the text
\* of undefined for an index past the end.
CharsetAt(idx) ==
  IF idx < Len(CHARSET) THEN <<CHARSET[idx + 1]>>
  ELSE <<"u", "n", "d", "e", "f", "i", "n", "e", "d">>

\* The characters generateRandomString can draw: randomIndex ranges over
\* 0 .. CHARSET.length - 1.
Alphabet == {CHARSET[idx + 1] : idx \in 0..(Len(CHARSET) - 1)}

DigitChar(d) == <<"0", "1", "2", "3", "4", "5", "6", "7", "8", "9">>[d + 1]

\* Number.prototype.toString() of a natural number.
RECURSIVE NumberToString(_)
NumberToString(n) ==
  IF n < 10 THEN <<DigitChar(n)>>
  ELSE Append(NumberToString(n \div 10), DigitChar(n % 10))

\* String.prototype.slice(-k)
SliceLast(s, k) ==
  IF Len(s) <= k THEN s ELSE SubSeq(s, Len(s) - k + 1, Len(s))

\* String.prototype.padStart(width, ch)
RECURSIVE PadStart(_, _, _)
PadStart(s, width, ch) ==
  IF Len(s) >= width THEN s ELSE PadStart(<<ch>> \o s, width, ch)

\* What new Date() can give as getFullYear(), getMonth() (0-11) and getDate().
Dates ==
  { [fullYear |-> 1970, month |-> 0,  date |-> 1],
    [fullYear |-> 1999, month |-> 11, date |-> 31],
    [fullYear |-> 2000, month |-> 1,  date |-> 29],
    [fullYear |-> 2009, month |-> 8,  date |-> 9],
    [fullYear |-> 2024, month |-> 9,  date |-> 5],
    [fullYear |-> 2100, month |-> 10, date |-> 30] }

\* Faulty variant: getMonth() is used as it is, zero-based.
DatePrefixZeroBasedMonth(now) ==
  SliceLast(NumberToString(now.fullYear), 2)
  \o PadStart(NumberToString(now.month), 2, "0")
  \o PadStart(NumberToString(now.date), 2, "0")

\* generateCouponCode: year, month, day and datePrefix.
DatePrefix(now) ==
  SliceLast(NumberToString(now.fullYear), 2)
  \o PadStart(NumberToString(now.month + 1), 2, "0")
  \o PadStart(NumberToString(now.date), 2, "0")

\* isValidCouponCode: length 12, /^\d{6}$/ on the first six characters,
\* /^[A-Z0-9]{6}$/ on the rest.
IsValidCouponCode(code) ==
  /\ Len(code) = 12
  /\ \A k \in 1..6 : code[k] \in Digits09
  /\ \A k \in 7..12 : code[k] \in UpperAZ \cup Digits09

\* Strings handed to isValidCouponCode besides generated codes.
CandidateCodes ==
  { <<"2", "4", "1", "2", "1", "6", "A", "B", "C", "D", "2", "3">>,
    <<"2", "4", "1", "2", "1", "6", "A", "B", "C", "D", "E", "0">>,
    <<"2", "4", "1", "2", "1", "6", "O", "I", "L", "1", "0", "A">>,
    <<"2", "4", "1", "2", "1", "6", "a", "B", "C", "D", "2", "3">>,
    <<"2", "4", "1", "2", "1", "6", "A", "B", "C", "D", "2", "-">>,
    <<"2", "4", "1", "2", "1", "x", "A", "B", "C", "D", "2", "3">>,
    <<"2", "4", "1", "2", "1", "6", "A", "B", "C", "D", "2">>,
    <<"2", "4", "1", "2", "1", "6", "A", "B", "C", "D", "2", "3", "4">>,
    <<>> }

\* generateCouponCode is called: the date prefix is built and
\* generateRandomString(6) starts.
GenerateCouponCodeEnter ==
  /\ gen.pc = "idle"
  /\ \E now \in Dates :
       gen' = [gen EXCEPT !.pc = "loop", !.now = now, !.datePrefix = DatePrefix(now)]
  /\ UNCHANGED <<serverVars, wiz, liff, prompt>>

\* One iteration of the loop of generateRandomString.
GenerateRandomStringLoop ==
  /\ gen.pc = "loop"
  /\ gen.i < SuffixLength
  /\ \E r \in MathRandom :
       gen' = [gen EXCEPT !.i = @ + 1, !.result = @ \o CharsetAt(RandomIndex(r))]
  /\ UNCHANGED <<serverVars, wiz, liff, prompt>>

\* The loop ends: generateCouponCode returns prefix and suffix.
GenerateCouponCodeReturn ==
  /\ gen.pc = "loop"
  /\ gen.i >= SuffixLength
  /\ gen' = [gen EXCEPT !.pc = "generated", !.code = gen.datePrefix \o gen.result]
  /\ UNCHANGED <<serverVars, wiz, liff, prompt>>

\* isValidCouponCode on a generated code.
ValidateGenerated ==
  /\ gen.pc = "generated"
  /\ gen' = [gen EXCEPT !.pc = "validated", !.valid = IsValidCouponCode(gen.code)]
  /\ UNCHANGED <<serverVars, wiz, liff, prompt>>

\* isValidCouponCode on some other string.
ValidateCandidate ==
  /\ gen.pc = "idle"
  /\ \E code \in CandidateCodes :
       gen' = [gen EXCEPT !.pc = "validated", !.code = code,
                          !.valid = IsValidCouponCode(code)]
  /\ UNCHANGED <<serverVars, wiz, liff, prompt>>

\* --------------------------------------------------- components/LiffProvider
\* What liff.getFriendship() answers: friendFlag true or false, the error
\* 'There is no login bot linked to this channel', or another error.
FriendshipOutcomes == {"friend", "notFriend", "noLoginBot", "error"}

\* The value setIsFriend is called with for an answer.
FriendFlag(outcome) == outcome \in {"friend", "noLoginBot"}

\* The state the provider publishes through its context.
LiffState(l) ==
  <<l.isInitialized, l.isLoading, l.error, l.profile, l.isLoggedIn,
    l.isFriend, l.isCheckingFriendship, l.isMockMode, l.debugInfo>>

\* React runs the init effect. A run that finds didInitRef set returns at
\* once and registers no cleanup; the first run calls initLiff, which runs
\* to its first await: without a LIFF ID it ends in mock mode (development)
\* or with an error, with one it calls liff.init.
LiffEffectRun ==
  /\ ~liff.active
  /\ liff.effectRuns < MaxEffectRuns
  /\ LET run == [liff EXCEPT !.active = TRUE, !.effectRuns = @ + 1]
         first == [run EXCEPT !.didInitRef = TRUE, !.owns = TRUE,
                              !.cancelled = FALSE]
     IN IF liff.didInitRef
        THEN liff' = run
        ELSE \E liffId \in BOOLEAN :
               liff' =
                 IF ~liffId /\ env.isDev
                 THEN [first EXCEPT !.debugInfo = "step1", !.isMockMode = TRUE,
                                    !.isInitialized = TRUE, !.isLoggedIn = TRUE,
                                    !.isFriend = FALSE, !.profile = MOCK_PROFILE,
                                    !.isLoading = FALSE, !.pc = "done"]
                 ELSE IF ~liffId
                 THEN [first EXCEPT !.debugInfo = "step1",
                                    !.error = "LIFF ID is not configured",
                                    !.isLoading = FALSE, !.pc = "done"]
                 ELSE [first EXCEPT !.debugInfo = "step2", !.initCalls = @ + 1,
                                    !.pc = "awaitInit"]
  /\ UNCHANGED <<serverVars, gen, wiz, prompt>>

\* React runs the cleanup of the effect run that is set up.
LiffEffectCleanup ==
  /\ liff.active
  /\ liff' = [liff EXCEPT !.active = FALSE, !.owns = FALSE,
                          !.cancelled = @ \/ liff.owns]
  /\ UNCHANGED <<serverVars, gen, wiz, prompt>>

\* initLiff returns without a state update: a cancelled check, then the
\* cancelled check of the finally block.
InitLiffCancelled == [liff EXCEPT !.pc = "done"]

\* liff.init resolved before the timeout.
LiffInitResolve ==
  /\ liff.pc = "awaitInit"
  /\ \E loggedIn \in BOOLEAN, inClient \in BOOLEAN :
       liff' =
         IF liff.cancelled THEN InitLiffCancelled
         ELSE IF ~loggedIn
         THEN LET login == ~inClient /\ ~liff.loginAttemptedRef
              IN [liff EXCEPT !.isInitialized = TRUE,
                              !.loginAttemptedRef = @ \/ login,
                              !.loginCalls = IF login THEN @ + 1 ELSE @,
                              !.debugInfo = IF login THEN "step4-REDIRECT | DONE"
                                            ELSE "step4 | DONE",
                              !.isLoading = FALSE, !.pc = "done"]
         ELSE [liff EXCEPT !.isInitialized = TRUE, !.isLoggedIn = TRUE,
                           !.debugInfo = "step5", !.pc = "awaitProfile"]
  /\ UNCHANGED <<serverVars, gen, wiz, prompt>>

\* liff.init rejected, or the 5 s timeout won the race.
LiffInitReject ==
  /\ liff.pc = "awaitInit"
  /\ \E msg \in {"LINE initialization timed out", "Failed to initialize LINE"} :
       liff' =
         IF liff.cancelled THEN InitLiffCancelled
         ELSE [liff EXCEPT !.error = msg, !.debugInfo = "step2-ERR | DONE",
                           !.isLoading = FALSE, !.pc = "done"]
  /\ UNCHANGED <<serverVars, gen, wiz, prompt>>

LiffProfileResolveUnguarded ==
  /\ liff.pc = "awaitProfile"
  /\ \E id \in RawUserIds :
       liff' = [liff EXCEPT !.profile = id, !.debugInfo = "step6",
                            !.pc = "awaitFriendship"]
  /\ UNCHANGED <<serverVars, gen, wiz, prompt>>

\* liff.getProfile() resolved.
LiffProfileResolve ==
  /\ liff.pc = "awaitProfile"
  /\ \E id \in RawUserIds :
       liff' =
         IF liff.cancelled THEN InitLiffCancelled
         ELSE [liff EXCEPT !.profile = id, !.debugInfo = "step6",
                           !.pc = "awaitFriendship"]
  /\ UNCHANGED <<serverVars, gen, wiz, prompt>>

\* liff.getProfile() rejected.
LiffProfileReject ==
  /\ liff.pc = "awaitProfile"
  /\ liff' =
       IF liff.cancelled THEN InitLiffCancelled
       ELSE [liff EXCEPT !.error = "Failed to get user profile",
                         !.debugInfo = "step5-ERR", !.pc = "awaitFriendship"]
  /\ UNCHANGED <<serverVars, gen, wiz, prompt>>

\* The initial liff.getFriendship() settled; the finally block ends the
\* routine.
LiffInitialFriendship ==
  /\ liff.pc = "awaitFriendship"
  /\ \E outcome \in FriendshipOutcomes :
       liff' =
         IF liff.cancelled THEN InitLiffCancelled
         ELSE [liff EXCEPT !.isFriend = FriendFlag(outcome),
                           !.debugInfo = "DONE",
                           !.isLoading = FALSE, !.pc = "done"]
  /\ UNCHANGED <<serverVars, gen, wiz, prompt>>

\* ------------------------------------------- components/survey/SurveyContainer
TOTAL_STEPS == 5

\* What the user picks and types (e.target.value is any string): selections
\* among the enumerated options, and texts that are empty, blank, padded or
\* one character longer than the 200 the page counts to.
PickedAges == {"18-24", "65+"}
PickedPrices == {"lte500", "gte2500"}
ToggledChannels == {"other", "retail"}
TooLongText == [k \in 1..(MaxTextLen + 1) |-> "x"]
TypedBrands == {<<>>, <<" ">>, <<"y", " ">>, TooLongText}
TypedOtherTexts == {<<>>, <<" ", "o">>, TooLongText}

\* array.includes / array.filter of StepChannels
Includes(seq, x) == \E k \in 1..Len(seq) : seq[k] = x

Without(seq, x) == SelectSeq(seq, LAMBDA y : y # x)

\* Faulty variant: step 3 lets the user go on with no channel selected.
CanProceedChannelsOptional(step, fd) ==
  CASE step = 1 -> fd.ageRange # "null"
    [] step = 2 -> fd.gender # "null"
    [] step = 3 -> Len(fd.channels) >= 0
    [] step = 4 -> fd.priceRange # "null"
    [] step = 5 -> Len(Trim(fd.currentBrand)) > 0
    [] OTHER -> FALSE

\* Faulty variant: step 5 tests the brand without trimming it.
CanProceedBrandUntrimmed(step, fd) ==
  CASE step = 1 -> fd.ageRange # "null"
    [] step = 2 -> fd.gender # "null"
    [] step = 3 -> Len(fd.channels) > 0
    [] step = 4 -> fd.priceRange # "null"
    [] step = 5 -> Len(fd.currentBrand) > 0
    [] OTHER -> FALSE

\* canProceed
CanProceed(step, fd) ==
  CASE step = 1 -> fd.ageRange # "null"
    [] step = 2 -> fd.gender # "null"
    [] step = 3 -> Len(fd.channels) > 0
    [] step = 4 -> fd.priceRange # "null"
    [] step = 5 -> Len(Trim(fd.currentBrand)) > 0
    [] OTHER -> FALSE

\* enabled: !!profile?.userId
StatusEnabled(l) == l.profile # NoProfile /\ l.profile # <<>>

\* statusQuery.isLoading: the first fetch of the enabled query has not
\* settled.
StatusIsLoading(l, w) == StatusEnabled(l) /\ w.status \in {"idle", "fetching"}

\* Faulty variant: no early return while the status query is loading.
ScreenOfWithoutChecking(l, w) ==
  IF ~w.mounted THEN "none"
  ELSE IF l.isLoading THEN "loading"
  ELSE IF l.error # "null" \/ w.status = "error" THEN "error"
  ELSE IF ~l.isLoggedIn \/ l.profile = NoProfile THEN "connecting"
  ELSE IF w.isSubmitted /\ w.couponCode # NoCode
       THEN (IF l.isFriend THEN "success" ELSE "prompt")
  ELSE "form"

\* Faulty variant: the coupon is shown whatever isFriend is.
ScreenOfIgnoringFriend(l, w) ==
  IF ~w.mounted THEN "none"
  ELSE IF l.isLoading THEN "loading"
  ELSE IF l.error # "null" \/ w.status = "error" THEN "error"
  ELSE IF ~l.isLoggedIn \/ l.profile = NoProfile THEN "connecting"
  ELSE IF StatusIsLoading(l, w) THEN "checking"
  ELSE IF w.isSubmitted /\ w.couponCode # NoCode THEN "success"
  ELSE "form"

\* What SurveyContainer renders for the provider state l and its own state w:
\* the early returns in their order, then the survey form.
ScreenOf(l, w) ==
  IF ~w.mounted THEN "none"
  ELSE IF l.isLoading THEN "loading"
  ELSE IF l.error # "null" \/ w.status = "error" THEN "error"
  ELSE IF ~l.isLoggedIn \/ l.profile = NoProfile THEN "connecting"
  ELSE IF StatusIsLoading(l, w) THEN "checking"
  ELSE IF w.isSubmitted /\ w.couponCode # NoCode
       THEN (IF l.isFriend THEN "success" ELSE "prompt")
  ELSE "form"

Screen == ScreenOf(liff, wiz)

\* The survey form is on screen.
FormShown == Screen = "form"

\* The first render, under the provider: the useState initial values.
SurveyContainerMount ==
  /\ ~wiz.mounted
  /\ liff.active
  /\ wiz' = [NoWizard EXCEPT !.mounted = TRUE, !.currentStep = 1]
  /\ UNCHANGED <<serverVars, gen, liff, prompt>>

\* The status query is enabled and fetches: the getStatus request is sent
\* with the profile's userId, which the router parses with lineUserIdSchema.
StatusQueryFetch(c) ==
  /\ wiz.mounted /\ wiz.status = "idle"
  /\ StatusEnabled(liff)
  /\ IF LineUserIdSchemaOk(liff.profile)
     THEN /\ Request(c, "getStatus", liff.profile, NoPayload)
          /\ wiz' = [wiz EXCEPT !.status = "fetching", !.statusCall = c]
     ELSE /\ wiz' = [wiz EXCEPT !.status = "error"]
          /\ UNCHANGED serverVars
  /\ UNCHANGED <<gen, liff, prompt>>

\* The getStatus request has returned (retry: false): statusQuery has data or
\* an error, and the effect on statusQuery.data copies the coupon of an
\* existing submission.
StatusQuerySettle ==
  /\ wiz.status = "fetching"
  /\ call[wiz.statusCall].pc = "done"
  /\ LET r == call[wiz.statusCall]
         data == [alreadySubmitted |-> r.found, couponCode |-> r.result]
         got == [wiz EXCEPT !.status = "success", !.statusData = data]
     IN wiz' =
          IF ~r.ok THEN [wiz EXCEPT !.status = "error"]
          ELSE IF data.alreadySubmitted /\ data.couponCode # NoCode
          THEN [got EXCEPT !.couponCode = data.couponCode, !.isSubmitted = TRUE]
          ELSE got
  /\ UNCHANGED <<serverVars, gen, liff, prompt>>

\* A handler of the form replaces one field of formData.
SetFormData(field, value) ==
  wiz' = [wiz EXCEPT !.formData[field] = value]

UpdateAge ==
  /\ FormShown /\ wiz.currentStep = 1
  /\ \E v \in PickedAges : SetFormData("ageRange", v)
  /\ UNCHANGED <<serverVars, gen, liff, prompt>>

UpdateGender ==
  /\ FormShown /\ wiz.currentStep = 2
  /\ \E v \in GENDERS : SetFormData("gender", v)
  /\ UNCHANGED <<serverVars, gen, liff, prompt>>

\* StepChannels.handleToggle, then updateChannels
HandleToggle ==
  /\ FormShown /\ wiz.currentStep = 3
  /\ \E ch \in ToggledChannels :
       SetFormData("channels",
                   IF Includes(wiz.formData.channels, ch)
                   THEN Without(wiz.formData.channels, ch)
                   ELSE Append(wiz.formData.channels, ch))
  /\ UNCHANGED <<serverVars, gen, liff, prompt>>

\* The other-channel input is rendered while 'other' is selected.
UpdateChannelOtherText ==
  /\ FormShown /\ wiz.currentStep = 3
  /\ Includes(wiz.formData.channels, "other")
  /\ \E t \in TypedOtherTexts : SetFormData("channelOtherText", t)
  /\ UNCHANGED <<serverVars, gen, liff, prompt>>

UpdatePriceRange ==
  /\ FormShown /\ wiz.currentStep = 4
  /\ \E v \in PickedPrices : SetFormData("priceRange", v)
  /\ UNCHANGED <<serverVars, gen, liff, prompt>>

UpdateCurrentBrand ==
  /\ FormShown /\ wiz.currentStep = 5
  /\ \E t \in TypedBrands : SetFormData("currentBrand", t)
  /\ UNCHANGED <<serverVars, gen, liff, prompt>>

\* A click on Back (enabled unless first step or submitting): handleBack.
HandleBack ==
  /\ FormShown
  /\ wiz.currentStep # 1 /\ ~wiz.isPending
  /\ wiz' = [wiz EXCEPT !.currentStep = IF wiz.currentStep > 1 THEN @ - 1 ELSE @]
  /\ UNCHANGED <<serverVars, gen, liff, prompt>>

\* A click on Next (rendered before the last step, enabled when canProceed):
\* handleNext.
HandleNext ==
  /\ FormShown
  /\ wiz.currentStep # TOTAL_STEPS
  /\ CanProceed(wiz.currentStep, wiz.formData)
  /\ wiz' = [wiz EXCEPT !.currentStep =
                          IF wiz.currentStep < TOTAL_STEPS
                             /\ CanProceed(wiz.currentStep, wiz.formData)
                          THEN @ + 1 ELSE @]
  /\ UNCHANGED <<serverVars, gen, liff, prompt>>

\* The input object handleSubmit hands to submitMutation.mutate.
MutationInput(fd) ==
  [ageRange |-> fd.ageRange, gender |-> fd.gender, channels |-> fd.channels,
   channelOtherText |-> IF fd.channelOtherText = <<>> THEN NoText ELSE fd.channelOtherText,
   priceRange |-> fd.priceRange, currentBrand |-> fd.currentBrand]

\* A click on Submit (rendered on the last step, enabled when canProceed and
\* not submitting): handleSubmit. mutate sends the submit request, which the
\* router parses with surveySubmitSchema before the handler runs.
HandleSubmit ==
  /\ FormShown
  /\ wiz.currentStep = TOTAL_STEPS
  /\ CanProceed(wiz.currentStep, wiz.formData) /\ ~wiz.isPending
  /\ LET input == MutationInput(wiz.formData)
         mutating == [wiz EXCEPT !.isPending = TRUE, !.mutated = TRUE,
                                 !.payload = input]
     IN IF ~StatusEnabled(liff) \/ ~CanProceed(wiz.currentStep, wiz.formData)
        THEN UNCHANGED <<serverVars, wiz>>
        ELSE IF SurveySubmitSchemaOk(liff.profile, input)
        THEN \E c \in Calls :
               /\ Request(c, "submit", liff.profile, input)
               /\ wiz' = [mutating EXCEPT !.mutationCall = c]
        ELSE /\ wiz' = mutating
             /\ UNCHANGED serverVars
  /\ UNCHANGED <<gen, liff, prompt>>

\* The mutation has settled.
Settled == [wiz EXCEPT !.isPending = FALSE, !.mutated = FALSE,
                       !.payload = NoPayload, !.mutationCall = 0]

\* Faulty variant: the coupon is taken as soon as the handler has generated it.
SubmitMutationSuccessEarly ==
  /\ wiz.isPending /\ wiz.mutationCall # 0
  /\ call[wiz.mutationCall].couponCode # NoCode
  /\ wiz' = [Settled EXCEPT !.couponCode = call[wiz.mutationCall].couponCode,
                            !.isSubmitted = TRUE]
  /\ UNCHANGED <<serverVars, gen, liff, prompt>>

\* submit returned { success: true, couponCode }: onSuccess.
SubmitMutationSuccess ==
  /\ wiz.isPending /\ wiz.mutationCall # 0
  /\ call[wiz.mutationCall].pc = "done" /\ call[wiz.mutationCall].ok
  /\ wiz' = [Settled EXCEPT !.couponCode = call[wiz.mutationCall].result,
                            !.isSubmitted = TRUE]
  /\ UNCHANGED <<serverVars, gen, liff, prompt>>

\* The input was rejected or submit threw: onError shows a toast.
SubmitMutationError ==
  /\ wiz.isPending
  /\ IF wiz.mutationCall = 0 THEN TRUE
     ELSE call[wiz.mutationCall].pc = "done" /\ ~call[wiz.mutationCall].ok
  /\ wiz' = Settled
  /\ UNCHANGED <<serverVars, gen, liff, prompt>>

\* ------------------- components/survey/AddFriendPromptPostSubmit, AddFriendPrompt
\* AddFriendPromptPostSubmit is rendered.
PostShown(l, w) == ScreenOf(l, w) = "prompt"

\* AddFriendPrompt is rendered: by a page that shows it in place of the
\* survey while the user has not added the Official Account.
PreShown(l, w) ==
  /\ ~w.mounted
  /\ ~l.isLoading /\ l.error = "null" /\ l.isLoggedIn
  /\ ~l.isFriend

\* A prompt that is no longer rendered loses its state, and the handlers it
\* started no longer reach a mounted component.
Rendered(l, p) ==
  [liff |-> [l EXCEPT !.checks =
               [i \in DOMAIN l.checks |->
                  IF \/ l.checks[i].origin = "refresh" /\ ~PostShown(l, wiz)
                     \/ l.checks[i].origin = "pre" /\ ~PreShown(l, wiz)
                  THEN [l.checks[i] EXCEPT !.live = FALSE]
                  ELSE l.checks[i]]],
   prompt |->
     [p EXCEPT !.retryCount = IF PostShown(l, wiz) THEN @ ELSE 0,
               !.unconfirmed = IF PostShown(l, wiz) THEN @ ELSE 0,
               !.preRetryCount = IF PreShown(l, wiz) THEN @ ELSE 0,
               !.showSkipOption = IF PreShown(l, wiz) THEN @ ELSE FALSE,
               !.preUnconfirmed = IF PreShown(l, wiz) THEN @ ELSE 0]]

\* checkFriendship up to its await, called by a handler of origin: without
\* an initialized, logged-in LIFF it returns isFriend as it is, otherwise it
\* sets isCheckingFriendship and calls liff.getFriendship(). seen: the
\* retryCount the calling handler closed over.
CheckFriendshipStart(l, origin, seen) ==
  LET ready == l.isInitialized /\ l.isLoggedIn
      check == [origin |-> origin, live |-> TRUE, seen |-> seen,
                ready |-> ready, was |-> l.isFriend]
  IN [l EXCEPT !.isCheckingFriendship = @ \/ ready,
               !.checks = Append(@, check)]

\* A click on "I've Added, Show My Coupon" (disabled while
\* isCheckingFriendship): handleRefresh up to its await.
HandleRefresh ==
  /\ PostShown(liff, wiz)
  /\ ~liff.isCheckingFriendship
  /\ prompt.clicks < MaxClicks
  /\ liff' = CheckFriendshipStart(liff, "refresh", prompt.retryCount)
  /\ prompt' = [prompt EXCEPT !.clicks = @ + 1]
  /\ UNCHANGED <<serverVars, gen, wiz>>

\* A click on "I've Added, Continue" of AddFriendPrompt: handleRefresh up to
\* its await.
PreHandleRefresh ==
  /\ PreShown(liff, wiz)
  /\ ~liff.isCheckingFriendship
  /\ prompt.clicks < MaxClicks
  /\ liff' = CheckFriendshipStart(liff, "pre", prompt.preRetryCount)
  /\ prompt' = [prompt EXCEPT !.clicks = @ + 1]
  /\ UNCHANGED <<serverVars, gen, wiz>>

SkipOfferedAfterOne == PostShown(liff, wiz) /\ prompt.retryCount >= 1

\* The skip option of AddFriendPromptPostSubmit is rendered.
SkipOffered == PostShown(liff, wiz) /\ prompt.retryCount >= 2

\* A click on "Show coupon anyway": handleSkip calls skipFriendshipCheck and
\* then onFriendshipConfirmed, which is recheckFriendship.
HandleSkip ==
  /\ SkipOffered
  /\ prompt.clicks < MaxClicks
  /\ LET skipped == [liff EXCEPT !.isFriend = TRUE]
         r == Rendered(CheckFriendshipStart(skipped, "skip", prompt.retryCount),
                       [prompt EXCEPT !.clicks = @ + 1])
     IN liff' = r.liff /\ prompt' = r.prompt
  /\ UNCHANGED <<serverVars, gen, wiz>>

\* A click on "Proceed without verification" of AddFriendPrompt: handleSkip
\* calls skipFriendshipCheck.
PreHandleSkip ==
  /\ PreShown(liff, wiz)
  /\ prompt.showSkipOption
  /\ LET r == Rendered([liff EXCEPT !.isFriend = TRUE], prompt)
     IN liff' = r.liff /\ prompt' = r.prompt
  /\ UNCHANGED <<serverVars, gen, wiz>>

\* A click on "Add Friend on LINE": addFriend opens the Official Account's
\* page; without NEXT_PUBLIC_LINE_OA_BASIC_ID it does nothing, except in mock
\* mode, where it sets isFriend.
HandleAddFriend ==
  /\ PostShown(liff, wiz) \/ PreShown(liff, wiz)
  /\ \E oaBasicId \in BOOLEAN :
       LET r == Rendered(IF ~oaBasicId /\ liff.isMockMode
                         THEN [liff EXCEPT !.isFriend = TRUE] ELSE liff,
                         prompt)
       IN liff' = r.liff /\ prompt' = r.prompt
  /\ UNCHANGED <<serverVars, gen, wiz>>

\* checks without its i-th element.
RemoveAt(s, i) == [j \in 1..(Len(s) - 1) |-> IF j < i THEN s[j] ELSE s[j + 1]]

\* liff.getFriendship() of a checkFriendship call settled: checkFriendship
\* sets isFriend, clears isCheckingFriendship and returns, and the handler
\* that awaited it continues. handleRefresh of AddFriendPromptPostSubmit
\* calls onFriendshipConfirmed (recheckFriendship) for a friend and
\* increments retryCount otherwise; handleRefresh of AddFriendPrompt
\* increments retryCount and shows the skip option when the retryCount it
\* closed over is at least 1.
CheckFriendshipSettle(i) ==
  /\ i \in DOMAIN liff.checks
  /\ \E outcome \in FriendshipOutcomes :
       LET k == liff.checks[i]
           flag == IF k.ready THEN FriendFlag(outcome) ELSE k.was
           returned ==
             [liff EXCEPT !.checks = RemoveAt(@, i),
                          !.isFriend = IF k.ready THEN flag ELSE @,
                          !.isCheckingFriendship = IF k.ready THEN FALSE ELSE @]
           l1 == IF k.origin = "refresh" /\ flag
                 THEN CheckFriendshipStart(returned, "confirmed", k.seen)
                 ELSE returned
           p1 == CASE k.origin = "refresh" /\ ~flag ->
                        [prompt EXCEPT
                           !.retryCount = IF k.live THEN @ + 1 ELSE @,
                           !.unconfirmed = IF k.live THEN @ + 1 ELSE @,
                           !.unconfirmedEver = @ + 1]
                    [] k.origin = "pre" ->
                        [prompt EXCEPT
                           !.preRetryCount = IF k.live THEN @ + 1 ELSE @,
                           !.showSkipOption = @ \/ (k.live /\ k.seen >= 1),
                           !.preUnconfirmed = IF k.live /\ ~flag THEN @ + 1 ELSE @,
                           !.preUnconfirmedEver = IF flag THEN @ ELSE @ + 1]
                    [] OTHER -> prompt
           r == Rendered(l1, p1)
       IN liff' = r.liff /\ prompt' = r.prompt
  /\ UNCHANGED <<serverVars, gen, wiz>>

\* ------------------------------------------------------------ specifications
\* The steps taken while storage answers.
NextAvail ==
  \/ \E c \in Calls : InvokeSubmit(c)
  \/ \E c \in Calls : InvokeGetStatus(c)
  \/ \E a \in Calls : ConnectResolve(a)
  \/ \E c \in Calls : ConnectDBResumeOk(c)
  \/ \E c \in Calls : SubmitFindExisting(c)
  \/ \E c \in Calls : SubmitFindNone(c)
  \/ \E c \in Calls : SaveInvalid(c)
  \/ \E c \in Calls : SaveDuplicate(c)
  \/ \E c \in Calls : SaveCommit(c)
  \/ \E c \in Calls : PushOk(c)
  \/ \E c \in Calls : PushFails(c)
  \/ \E c \in Calls : UpdateOneOk(c)
  \/ \E c \in Calls : RereadFound(c)
  \/ \E c \in Calls : RereadNone(c)
  \/ \E c \in Calls : GetStatusFind(c)

\* The steps of a storage failure.
NextStorageFailure ==
  \/ \E a \in Calls : ConnectReject(a)
  \/ \E c \in Calls : ConnectDBResumeThrow(c)
  \/ \E c \in Calls : SubmitFindThrows(c)
  \/ \E c \in Calls : SaveThrows(c)
  \/ \E c \in Calls : UpdateOneThrows(c)
  \/ \E c \in Calls : RereadThrows(c)
  \/ \E c \in Calls : GetStatusThrows(c)

Next == NextAvail \/ NextStorageFailure

Spec == Init /\ [][Next]_vars

\* Storage is configured and answers every operation.
InitAvail == Init /\ env.mongoUri

SpecAvail == InitAvail /\ [][NextAvail]_vars

\* lib/db.ts on its own: getStatus requests, whose handlers call connectDB
\* first, and the outcomes of mongoose.connect.
Callers == 1..MaxCallers

InitConnect ==
  /\ env \in Envs
  /\ cached = [conn |-> FALSE, promise |-> NoAttempt]
  /\ attempts = <<>>
  /\ records = {PriorRecord}
  /\ line = [NoLine EXCEPT !.sendCalls[PriorRecord.lineUserId] = 1]
  /\ call = [c \in Callers |-> IdleCall]
  /\ gen = IdleGen
  /\ wiz = NoWizard
  /\ liff = NoLiff
  /\ prompt = NoPrompt

NextConnect ==
  \/ \E c \in Callers : Invoke(c, "getStatus", <<"b">>, NoPayload)
  \/ \E a \in Callers : ConnectResolve(a)
  \/ \E a \in Callers : ConnectReject(a)
  \/ \E c \in Callers : ConnectDBResumeOk(c)
  \/ \E c \in Callers : ConnectDBResumeThrow(c)
  \/ \E c \in Callers : GetStatusFind(c)

SpecConnect == InitConnect /\ [][NextConnect]_vars

\* The LiffProvider on its own: the runs and cleanups of its init effect and
\* the steps of initLiff.
NextLiff ==
  \/ LiffEffectRun
  \/ LiffEffectCleanup
  \/ LiffInitResolve
  \/ LiffInitReject
  \/ LiffProfileResolve
  \/ LiffProfileReject
  \/ LiffInitialFriendship

SpecLiff == Init /\ [][NextLiff]_vars

\* The screens after a submission and the add-friend prompts: the provider,
\* the status query of SurveyContainer and the handlers of the prompts.
NextPrompt ==
  \/ LiffEffectRun
  \/ LiffInitResolve
  \/ LiffProfileResolve
  \/ LiffInitialFriendship
  \/ SurveyContainerMount
  \/ \E c \in Calls : StatusQueryFetch(c)
  \/ StatusQuerySettle
  \/ \E a \in Calls : ConnectResolve(a)
  \/ \E c \in Calls : ConnectDBResumeOk(c)
  \/ \E c \in Calls : GetStatusFind(c)
  \/ HandleRefresh
  \/ HandleSkip
  \/ HandleAddFriend
  \/ PreHandleRefresh
  \/ PreHandleSkip
  \/ \E i \in 1..(2 * MaxClicks) : CheckFriendshipSettle(i)

SpecPrompt == Init /\ [][NextPrompt]_vars

\* The coupon library on its own: one call of generateCouponCode followed by
\* isValidCouponCode, or isValidCouponCode on a handed-in string.
NextCoupon ==
  \/ GenerateCouponCodeEnter
  \/ GenerateRandomStringLoop
  \/ GenerateCouponCodeReturn
  \/ ValidateGenerated
  \/ ValidateCandidate

\* No request is in flight: the development environment, nothing invoked.
InitCoupon == Init /\ env.isDev

SpecCoupon == InitCoupon /\ [][NextCoupon]_vars

\* The survey wizard of one page load: the provider logs the user in, the
\* status query and the submit mutation are served by the router while
\* storage answers, and the user fills in the form.
NextWizard ==
  \/ LiffEffectRun
  \/ LiffInitResolve
  \/ LiffProfileResolve
  \/ LiffInitialFriendship
  \/ SurveyContainerMount
  \/ \E c \in Calls : StatusQueryFetch(c)
  \/ StatusQuerySettle
  \/ \E a \in Calls : ConnectResolve(a)
  \/ \E c \in Calls : ConnectDBResumeOk(c)
  \/ \E c \in Calls : GetStatusFind(c)
  \/ \E c \in Calls : GetStatusThrows(c)
  \/ \E c \in Calls : SubmitFindNone(c)
  \/ \E c \in Calls : SaveCommit(c)
  \/ \E c \in Calls : UpdateOneOk(c)
  \/ UpdateAge
  \/ UpdateGender
  \/ HandleToggle
  \/ UpdateChannelOtherText
  \/ UpdatePriceRange
  \/ UpdateCurrentBrand
  \/ HandleBack
  \/ HandleNext
  \/ HandleSubmit
  \/ SubmitMutationSuccess
  \/ SubmitMutationError

InitWizard == Init /\ env.isDev

SpecWizard == InitWizard /\ [][NextWizard]_vars

\* ------------------------------------------------------------------ claims
RecordsOf(u) == {r \in records : r.lineUserId = u}

Returned(c) == call[c].pc = "done"

SubmitReturned(c) == call[c].kind = "submit" /\ Returned(c)

\* The request body of c is one save() accepts.
Storable(c) ==
  SchemaValid(NewSurveyResponse(call[c].lineUserId, call[c].payload, 1))

\* p and q overlap: neither was invoked after the other had returned.
Concurrent(p, q) == p \notin call[q].after /\ q \notin call[p].after

\* c returned success with the coupon code of the one record of its identity.
ReturnedStoredCoupon(c) ==
  /\ call[c].ok
  /\ \A r \in RecordsOf(StoredId(c)) : r.couponCode = call[c].result
  /\ Cardinality(RecordsOf(StoredId(c))) = 1

\* C1: submit calls for one identity that run concurrently (storage
\* answering, request bodies the schema accepts) all return success with the
\* same coupon code, and exactly one record of the identity exists afterwards.
C1_ConcurrentSubmitsAgree ==
  \A p, q \in Calls :
    ( /\ p # q
      /\ SubmitReturned(p) /\ SubmitReturned(q)
      /\ StoredId(p) = StoredId(q)
      /\ Storable(p) /\ Storable(q)
      /\ Concurrent(p, q) )
    => /\ ReturnedStoredCoupon(p) /\ ReturnedStoredCoupon(q)
       /\ call[p].result = call[q].result

\* C2: two submit calls for one identity, the second invoked after the first
\* returned, return the same coupon code and leave exactly one record.
C2_SequentialSubmitsAgree ==
  \A p, q \in Calls :
    ( /\ p \in call[q].after
      /\ SubmitReturned(p) /\ SubmitReturned(q)
      /\ StoredId(p) = StoredId(q)
      /\ Storable(p) /\ Storable(q) )
    => /\ ReturnedStoredCoupon(p) /\ ReturnedStoredCoupon(q)
       /\ call[p].result = call[q].result

\* C3: at most one record exists per identity in every reachable state, and
\* no step changes the couponCode of a record that exists.
C3_OneRecordCouponFixed ==
  /\ [](\A u \in StoredIds : Cardinality(RecordsOf(u)) <= 1)
  /\ [][\A r \in records : \A r2 \in records' :
          r2.lineUserId = r.lineUserId => r2.couponCode = r.couponCode]_vars

\* C3 witness: a call created a record, its coupon was stamped as sent, and
\* another call for the same identity has returned since.
C3_Witness ==
  \E p, q \in Calls :
    /\ p # q /\ call[p].inserted /\ call[p].stamp = "ok"
    /\ Returned(q) /\ StoredId(q) = StoredId(p) /\ p \in call[q].after

\* C4: sendCouponToUser is called at most once per identity, and never by a
\* call that found an existing record or whose insert failed.
C4_AtMostOneDeliveryAttempt ==
  /\ \A u \in StoredIds : line.sendCalls[u] <= 1
  /\ \A c \in Calls :
       (call[c].saveError # "" \/ (SubmitReturned(c) /\ call[c].saves = 0))
       => ~call[c].sent

\* C4 witness: one call sent the coupon of an identity while another lost
\* the insert race for it and returned.
C4_Witness ==
  \E p, q \in Calls :
    /\ call[p].sent /\ line.sendCalls[StoredId(p)] = 1
    /\ StoredId(q) = StoredId(p)
    /\ call[q].saveError = DupLineUserId /\ Returned(q) /\ call[q].ok

\* The insert of c failed on the unique index of the identity: another call
\* had created the record.
LostInsertRace(c) == SubmitReturned(c) /\ call[c].saveError = DupLineUserId

\* C5 as stated: a call whose insert lost the race returns success with the
\* stored record's coupon code and creates no record, never an error.
C5_RaceLoserNeverErrors ==
  \A c \in Calls :
    LostInsertRace(c) => ReturnedStoredCoupon(c) /\ ~call[c].inserted

\* C5 amended: a call whose insert lost the race returns success with the
\* stored record's coupon code and creates no record, unless the re-read
\* itself fails because storage is unavailable, in which case that error
\* reaches the caller.
C5_RaceLoserRereads ==
  \A c \in Calls :
    LostInsertRace(c) =>
      /\ ~call[c].inserted
      /\ \/ ReturnedStoredCoupon(c)
         \/ ~call[c].ok /\ call[c].error = "MongoError"

\* C5 witness: a call lost the insert race and returned the winner's coupon.
C5_Witness ==
  \E c \in Calls :
    /\ LostInsertRace(c) /\ call[c].ok
    /\ \E w \in Calls : w # c /\ call[w].inserted /\ call[w].couponCode = call[c].result

\* C6: a call whose insert failed on the unique index of the coupon code
\* reports a fatal error only after retrying the insert with a new code.
C6_CollisionIsRetried ==
  \A c \in Calls :
    ( /\ SubmitReturned(c)
      /\ ~call[c].ok
      /\ call[c].saveError = DupCouponCode )
    => call[c].saves >= 2

\* The delivery a call made failed: the push was rejected, or no client
\* could be built.
DeliveryFailed(c) == call[c].push \in {"failed", "noclient"}

\* C7: after a failed delivery the call returns success with the coupon code
\* of the record it created, and the record stays stored with couponSentAt null.
C7_DeliveryFailureKeepsRecord ==
  \A c \in Calls :
    DeliveryFailed(c) =>
      /\ Returned(c) /\ call[c].ok /\ call[c].result = call[c].couponCode
      /\ \E r \in RecordsOf(StoredId(c)) :
           r.couponCode = call[c].couponCode /\ r.couponSentAt = "null"

\* C7 witness: LINE rejected the push of a call that has returned.
C7_Witness ==
  \E c \in Calls : call[c].push = "failed" /\ Returned(c) /\ call[c].ok

\* C8: a delivery attempt for an identity is made only once its record is
\* stored, and no step removes a stored record.
C8_DeliveryAfterCommit ==
  /\ [](\A c \in Calls :
          (call[c].sent \/ call[c].pc = "push" \/ call[c].push # "none")
          => \E r \in RecordsOf(StoredId(c)) : r.couponCode = call[c].couponCode)
  /\ [](\A u \in StoredIds : line.sendCalls[u] > 0 => RecordsOf(u) # {})
  /\ [][\A r \in records : \E r2 \in records' : r2.lineUserId = r.lineUserId]_vars

\* C8 witness: a push is in flight for a record that is stored.
C8_Witness ==
  \E c \in Calls :
    /\ call[c].pc = "push" /\ call[c].sent
    /\ \E r \in RecordsOf(StoredId(c)) : r.couponCode = call[c].couponCode

\* C9 as stated: couponSentAt is set only on a record whose coupon LINE
\* accepted a push for, in every configuration of the service.
C9_StampedOnlyIfDelivered ==
  \A r \in records :
    r.couponSentAt # "null" => r.lineUserId \in line.delivered

\* C9 amended: couponSentAt is set only on a record for which
\* sendCouponToUser returned without throwing: LINE accepted the push, or the
\* service ran in mock mode and skipped the push.
C9_StampedOnlyIfSendReturned ==
  \A r \in records :
    r.couponSentAt # "null" =>
      \/ r.lineUserId \in line.delivered
      \/ /\ IsMockMode
         /\ \E c \in Calls : call[c].push = "mock" /\ StoredId(c) = r.lineUserId

\* C9 witness: a record is stamped after LINE accepted the push.
C9_Witness ==
  \E r \in records :
    r.couponSentAt # "null" /\ r.lineUserId \in line.delivered /\ ~IsMockMode

StatusReturned(c) == call[c].kind = "getStatus" /\ Returned(c) /\ call[c].ok

\* C11: a getStatus call that answers reports alreadySubmitted=false and no
\* coupon code exactly when no record of the identity is stored at its query,
\* and alreadySubmitted=true with the stored coupon code exactly when one is;
\* invoked after a successful submit of the identity has returned, it answers
\* with the coupon code that submit returned.
C11_GetStatusReportsRecord ==
  /\ [][\A c \in Calls :
          (call[c].pc = "statusFind" /\ call'[c].pc = "done" /\ call'[c].ok) =>
            /\ call'[c].found <=> RecordsOf(StoredId(c)) # {}
            /\ RecordsOf(StoredId(c)) = {} => call'[c].result = NoCode
            /\ \A r \in RecordsOf(StoredId(c)) : call'[c].result = r.couponCode]_vars
  /\ [](\A g, s \in Calls :
          ( /\ StatusReturned(g)
            /\ SubmitReturned(s) /\ call[s].ok
            /\ s \in call[g].after
            /\ StoredId(s) = StoredId(g) )
          => call[g].found /\ call[g].result = call[s].result)

\* C11 witness: a submit created a record under an identity sent with
\* surrounding blanks, and a getStatus invoked afterwards with the same
\* identity answered with the coupon code the submit returned.
C11_Witness ==
  \E g, s \in Calls :
    /\ StatusReturned(g) /\ call[g].found
    /\ SubmitReturned(s) /\ call[s].ok /\ call[s].inserted
    /\ s \in call[g].after
    /\ call[g].lineUserId = call[s].lineUserId
    /\ call[g].lineUserId # StoredId(g)
    /\ call[g].result = call[s].result

\* C12: no step of a getStatus call changes the set of records or a field of
\* a record, and none attempts a delivery.
C12_GetStatusReadOnly ==
  [][\A c \in Calls :
       (call'[c] # call[c] /\ call'[c].kind = "getStatus")
       => records' = records /\ line' = line]_vars

\* C12 witness: getStatus answered for an identity whose record is stored,
\* and the record is as it was.
C12_Witness ==
  \E g \in Calls :
    /\ StatusReturned(g) /\ call[g].found
    /\ StoredId(g) = PriorRecord.lineUserId
    /\ PriorRecord \in records

\* A storage operation of submit failed while c connected, looked up,
\* inserted or re-read.
StorageFailedIn(c) ==
  /\ call[c].kind = "submit"
  /\ \/ call[c].error \in {"MONGODB_URI", "connect", "MongoError"}
     \/ call[c].saveError = "MongoError"

\* C13: a submit call that storage failed on while it connected, looked up,
\* inserted or re-read ends with an error for its caller; it has created no
\* record and attempted no delivery, every stored record is complete, and no
\* delivery was attempted for an identity without a record.
C13_StorageFailureIsFatal ==
  /\ \A c \in Calls :
       StorageFailedIn(c) =>
         /\ Returned(c) /\ ~call[c].ok /\ call[c].error # ""
         /\ ~call[c].inserted /\ ~call[c].sent
  /\ \A r \in records : SchemaValid(r)
  /\ \A u \in StoredIds : line.sendCalls[u] > 0 => RecordsOf(u) # {}

\* C13 witness: the insert of a call failed because storage was unavailable;
\* the call reported the error and its identity has no record.
C13_Witness ==
  \E c \in Calls :
    /\ call[c].saveError = "MongoError"
    /\ Returned(c) /\ call[c].error = SaveFailedError
    /\ RecordsOf(StoredId(c)) = {}

Generated == gen.pc \in {"generated", "validated"} /\ gen.now # NoDate

\* The characters the generator's documentation excludes.
Ambiguous == {"0", "1", "O", "I", "L"}

\* C15: a code generateCouponCode returned has 12 characters: 6 decimal
\* digits, then 6 uppercase letters or digits none of which is 0, 1, O, I, L.
C15_GeneratedCodeShape ==
  Generated =>
    /\ Len(gen.code) = 12
    /\ \A k \in 1..6 : gen.code[k] \in Digits09
    /\ \A k \in 7..12 : gen.code[k] \in (UpperAZ \cup Digits09) \ Ambiguous

\* C15 witness: a generated code whose suffix has a letter and a digit.
C15_Witness ==
  /\ Generated
  /\ \E j, k \in 7..12 : gen.code[j] \in UpperAZ /\ gen.code[k] \in Digits09

\* C16 as stated: the alphabet the suffix of a generated code is drawn from
\* has exactly 32 distinct symbols, the uppercase letters and digits other
\* than 0, O, 1, I, L.
C16_AlphabetHas32Symbols ==
  Generated =>
    /\ Cardinality(Alphabet) = 32
    /\ Alphabet = (UpperAZ \cup Digits09) \ Ambiguous

\* C16 amended: the alphabet the suffix of a generated code is drawn from has
\* exactly 31 distinct symbols, the uppercase letters and digits other than
\* 0, O, 1, I, L, each once in the character set.
C16_AlphabetHas31Symbols ==
  /\ Cardinality(Alphabet) = 31
  /\ Len(CHARSET) = Cardinality(Alphabet)
  /\ Alphabet = (UpperAZ \cup Digits09) \ Ambiguous
  /\ \A k \in 1..Len(gen.result) : gen.result[k] \in Alphabet

\* C16 witness: a generated suffix holds the first and the last symbol of the
\* character set.
C16_Witness ==
  /\ Generated
  /\ \E j, k \in 1..Len(gen.result) :
       gen.result[j] = CHARSET[1] /\ gen.result[k] = CHARSET[Len(CHARSET)]

\* C17: isValidCouponCode answers true exactly for 6 decimal digits followed
\* by 6 characters of the generator's alphabet; a 12-character string with
\* 0, 1, O, I or L in its suffix is rejected.
C17_ValidatorMatchesGenerator ==
  gen.pc = "validated" =>
    ( gen.valid <=>
        /\ Len(gen.code) = 12
        /\ \A k \in 1..6 : gen.code[k] \in Digits09
        /\ \A k \in 7..12 : gen.code[k] \in Alphabet )

\* C18: the first 6 characters of a generated code are the last two digits of
\* the year, the month (01-12) and the day of the generation date, each
\* zero-padded to two digits, in that order.
C18_PrefixIsGenerationDate ==
  Generated =>
    LET yy == gen.now.fullYear % 100
        mm == gen.now.month + 1
        dd == gen.now.date
    IN /\ mm \in 1..12
       /\ SubSeq(gen.code, 1, 6) =
            << DigitChar(yy \div 10), DigitChar(yy % 10),
               DigitChar(mm \div 10), DigitChar(mm % 10),
               DigitChar(dd \div 10), DigitChar(dd % 10) >>

\* C18 witness: a code generated on a day whose month and day have one digit.
C18_Witness ==
  /\ Generated
  /\ gen.now.month + 1 < 10 /\ gen.now.date < 10
  /\ gen.code[3] = "0" /\ gen.code[5] = "0"

\* C19: every input the form hands to the submit mutation satisfies
\* surveySubmitSchema: enumerated age range, gender and price range, at least
\* one enumerated channel, other-channel text of at most 200 characters and a
\* brand of 1 to 200 characters.
C19_FormPayloadSatisfiesSchema ==
  wiz.mutated => SurveySubmitSchemaOk(liff.profile, wiz.payload)

\* The completeness predicate of step k: age selected, gender selected, at
\* least one channel, price selected, non-blank brand.
StepComplete(k, fd) ==
  \/ k = 1 /\ fd.ageRange \in AGE_RANGES
  \/ k = 2 /\ fd.gender \in GENDERS
  \/ k = 3 /\ fd.channels # <<>>
  \/ k = 4 /\ fd.priceRange \in PRICE_RANGES
  \/ k = 5 /\ \E j \in 1..Len(fd.currentBrand) : fd.currentBrand[j] # " "

\* C20: currentStep is always within 1..5; it changes only by Next, from k to
\* k+1 with k < 5 and step k complete, or by Back, from k to k-1 with k > 1.
C20_StepsAreGated ==
  /\ [](wiz.mounted => wiz.currentStep \in 1..5)
  /\ [][(wiz.mounted /\ wiz'.currentStep # wiz.currentStep) =>
          \/ /\ wiz'.currentStep = wiz.currentStep + 1
             /\ wiz.currentStep < 5
             /\ StepComplete(wiz.currentStep, wiz.formData)
          \/ /\ wiz'.currentStep = wiz.currentStep - 1
             /\ wiz.currentStep > 1]_vars

\* C20 witness: the wizard went up to the last step and came back to the
\* first with all five steps filled in.
C20_Witness ==
  /\ wiz.mounted /\ wiz.currentStep = 1
  /\ \A k \in 1..5 : StepComplete(k, wiz.formData)

\* C21: whenever the wizard is at step k, steps 1..k-1 are complete; the input
\* of a submit mutation has an age range, a gender, a price range, at least
\* one channel and a non-blank brand.
C21_EarlierStepsComplete ==
  /\ wiz.mounted =>
       \A k \in 1..(wiz.currentStep - 1) : StepComplete(k, wiz.formData)
  /\ wiz.mutated =>
       /\ wiz.payload.ageRange \in AGE_RANGES
       /\ wiz.payload.gender \in GENDERS
       /\ wiz.payload.priceRange \in PRICE_RANGES
       /\ Len(wiz.payload.channels) >= 1
       /\ \E j \in 1..Len(wiz.payload.currentBrand) : wiz.payload.currentBrand[j] # " "

\* C21 witness: a mutation is in flight with two channels, selected in that
\* order at step 3, and a brand with a trailing blank.
C21_Witness ==
  /\ wiz.mutated /\ wiz.currentStep = 5
  /\ wiz.payload.channels = <<"retail", "other">>
  /\ wiz.payload.currentBrand = <<"y", " ">>

\* The connection attempts that have not settled.
Pending == {a \in 1..Len(attempts) : attempts[a] = "pending"}

C30_FailureIsNotCached ==
  /\ [][\A c \in DOMAIN call :
          (/\ call[c].pc = "awaitConn"
           /\ attempts[call[c].awaiting] = "rejected"
           /\ call'[c] # call[c])
          => /\ call'[c].pc = "done" /\ ~call'[c].ok /\ call'[c].error = "connect"
             /\ cached'.promise = NoAttempt
             /\ cached'.conn = cached.conn]_vars
  /\ []((cached.promise # NoAttempt /\ attempts[cached.promise] = "rejected")
          => \E c \in DOMAIN call :
               call[c].pc = "awaitConn" /\ call[c].awaiting = cached.promise)
  /\ [][\A c \in DOMAIN call :
          (/\ call[c].pc = "idle" /\ call'[c].pc # "idle"
           /\ env.mongoUri /\ ~cached.conn /\ cached.promise = NoAttempt)
          => /\ attempts' = Append(attempts, "pending")
             /\ call'[c].pc = "awaitConn"
             /\ call'[c].awaiting = Len(attempts')]_vars

\* Two callers got the error of the first attempt, and a later call has
\* started a second attempt.
C30_Witness ==
  /\ Len(attempts) = 2 /\ attempts[1] = "rejected" /\ attempts[2] = "pending"
  /\ cached.promise = 2 /\ ~cached.conn
  /\ Cardinality({c \in DOMAIN call :
                    call[c].pc = "done" /\ call[c].error = "connect"}) = 2

\* C26: on one provider instance liff.init is called at most once and
\* liff.login at most once, however often the init effect is run and cleaned
\* up, and a step of initLiff taken after the cleanup changes no state of the
\* provider.
C26_InitOnceAndNoLateUpdate ==
  /\ [](liff.initCalls <= 1 /\ liff.loginCalls <= 1)
  /\ [][(liff.cancelled /\ liff'.pc # liff.pc) => LiffState(liff') = LiffState(liff)]_vars

\* The effect ran, was cleaned up while getProfile was awaited and ran
\* again; initLiff has returned.
C26_Witness ==
  /\ liff.effectRuns = 2 /\ liff.active
  /\ liff.cancelled /\ liff.pc = "done"
  /\ liff.initCalls = 1 /\ liff.isLoggedIn

\* C27: with a LIFF ID configured, once initLiff has returned on a mounted
\* provider isLoading is false, also after the effect was cleaned up and run
\* again.
C27_LoadingEnds ==
  (liff.active /\ liff.initCalls = 1 /\ liff.pc = "done") => ~liff.isLoading

\* C22: a submit mutation is in flight only for a non-empty identity whose
\* getStatus query has returned, successfully and without an existing
\* submission, before the request was sent; the survey form is not on screen
\* while the status query is loading or has failed, nor once a coupon is held.
C22_SubmitOnlyAfterStatus ==
  /\ wiz.mutated =>
       /\ StatusEnabled(liff)
       /\ wiz.status = "success" /\ ~wiz.statusData.alreadySubmitted
       /\ call[wiz.statusCall].lineUserId = liff.profile
  /\ \A c \in Calls :
       call[c].kind = "submit" =>
         /\ call[c].lineUserId = liff.profile /\ call[c].lineUserId # <<>>
         /\ wiz.statusCall \in call[c].after
         /\ call[wiz.statusCall].ok /\ ~call[wiz.statusCall].found
  /\ FormShown =>
       /\ ~StatusIsLoading(liff, wiz) /\ wiz.status # "error"
       /\ ~(wiz.isSubmitted /\ wiz.couponCode # NoCode)

\* The submit request of identity ' a' is being handled; its status query
\* found no record.
C22_Witness ==
  /\ wiz.mutated /\ wiz.mutationCall # 0
  /\ call[wiz.mutationCall].pc = "save"
  /\ liff.profile = <<" ", "a">>

\* C28: a coupon code the client holds is the couponCode of the record stored
\* for the logged-in identity.
C28_CouponIsStored ==
  wiz.couponCode # NoCode =>
    \E r \in records :
      r.lineUserId = Trim(liff.profile) /\ r.couponCode = wiz.couponCode

\* The client holds the coupon its own submit returned.
C28_Witness ==
  /\ wiz.couponCode # NoCode /\ wiz.isSubmitted
  /\ wiz.status = "success" /\ ~wiz.statusData.alreadySubmitted

\* The client holds the coupon the status query reported.
C28_WitnessStatus ==
  /\ wiz.couponCode # NoCode /\ wiz.isSubmitted
  /\ wiz.statusData.alreadySubmitted
  /\ wiz.couponCode = PriorRecord.couponCode

\* A submission is recorded on the client.
Recorded == wiz.isSubmitted /\ wiz.couponCode # NoCode

\* C23 as stated: whenever a submission is recorded on the client the success
\* screen is shown exactly when isFriend is true and the post-submit prompt
\* exactly when it is false; the success screen is never shown without a
\* coupon code.
C23_ScreenFollowsIsFriend ==
  /\ Recorded => /\ Screen = "success" <=> liff.isFriend
                 /\ Screen = "prompt" <=> ~liff.isFriend
  /\ Screen = "success" => wiz.couponCode # NoCode

\* C23, amended: the same once the provider has finished loading; while it
\* is loading, the loading screen is shown.
C23_ScreenFollowsIsFriendOnceLoaded ==
  /\ (Recorded /\ ~liff.isLoading) =>
       /\ Screen = "success" <=> liff.isFriend
       /\ Screen = "prompt" <=> ~liff.isFriend
  /\ (Recorded /\ liff.isLoading) => Screen = "loading"
  /\ Screen \in {"success", "prompt"} => Recorded

\* A recheck confirmed friendship after the prompt had been shown: the
\* coupon is on screen.
C23_Witness ==
  /\ Recorded /\ liff.isFriend /\ Screen = "success"
  /\ prompt.clicks > 0

\* The calls of checkFriendship that handleSkip started and that have not
\* returned.
SkipChecks(l) == {i \in DOMAIN l.checks : l.checks[i].origin = "skip"}

\* C24: when the recheck that handleSkip started returns, isFriend is true
\* and the success screen is shown.
C24_SkipShowsCoupon ==
  [][Cardinality(SkipChecks(liff')) < Cardinality(SkipChecks(liff))
       => liff'.isFriend /\ ScreenOf(liff', wiz') = "success"]_vars

\* C25: the skip option of a prompt is offered only when at least two
\* rechecks of the user have completed without confirming friendship, and a
\* displayed prompt offers it exactly when two rechecks started on it have.
C25_SkipAfterTwoRechecks ==
  /\ SkipOffered => prompt.unconfirmedEver >= 2
  /\ PostShown(liff, wiz) => (SkipOffered <=> prompt.unconfirmed >= 2)
  /\ (PreShown(liff, wiz) /\ prompt.showSkipOption) => prompt.preUnconfirmedEver >= 2
  /\ PreShown(liff, wiz) => (prompt.showSkipOption <=> prompt.preUnconfirmed >= 2)

\* The post-submit prompt offers the skip option after two rechecks.
C25_Witness ==
  /\ SkipOffered /\ prompt.unconfirmed = 2 /\ liff.checks = <<>>

\* AddFriendPrompt offers the skip option after two rechecks.
C25_WitnessPre ==
  /\ PreShown(liff, wiz) /\ prompt.showSkipOption /\ prompt.preUnconfirmed = 2

====
